---- MODULE Spec2Model ----
(***************************************************************************)
(* Model of src/App.tsx: the App component of the birthday-hat overlay.    *)
(*                                                                         *)
(* State: the React state (status, errorMessage, hatPosition), the refs    *)
(* (videoRef, canvasRef, animationFrameId, detectorRef), the position of   *)
(* the async function initialize, the <video>/<canvas> elements, the       *)
(* camera stream, the host's animation-frame queue and the pending         *)
(* estimateFaces promises.                                                 *)
(*                                                                         *)
(* A state setter (setStatus, setErrorMessage, setHatPosition) is modelled *)
(* as the call the code makes: the variable holds the last value handed to *)
(* the setter.  React re-renders before it delivers the next user event,   *)
(* so handleStart reads the same status.                                   *)
(*                                                                         *)
(* The effect has an empty dependency list: it runs once after mount and   *)
(* its cleanup runs once, at unmount.  React clears the refs of the        *)
(* unmounted elements; whether it does so before the cleanup runs          *)
(* (React 17 and later) or right after it (React 16) depends on the React  *)
(* version the page loads, so Teardown takes both.                         *)
(*                                                                         *)
(* Numbers of the overlay geometry are exact rationals <<n, d>>.           *)
(***************************************************************************)
EXTENDS Integers, Sequences, FiniteSets, TLC

\* ---------------------------------------------------------------- bounds
\* requestAnimationFrame ids handed out in one behaviour
MaxRaf == 3
\* invocations of handleStart in one behaviour
MaxStarts == 2

\* ------------------------------------------------------------- constants
\* HTMLMediaElement.HAVE_ENOUGH_DATA, the readyState detectFace requires
HAVE_ENOUGH_DATA == 4

WebcamMsg == "Khong the truy cap webcam"
ModelMsg == "Khong the tai mo hinh nhan dien"
DetectMsg == "Da xay ra loi trong khi nhan dien khuon mat"

InitialTransform == "translate(-50%, -100%)"
HatTransform == "translate(-50%, -90%) rotate(-10deg)"

Statuses == {"IDLE", "INITIALIZING_WEBCAM", "LOADING_MODEL", "READY", "DETECTING", "ERROR"}

\* ---------------------------------------------------------------- inputs
\* intrinsic sizes the camera may deliver (videoWidth, videoHeight)
NativeSizes == {<<1280, 720>>, <<4, 2>>}
\* rendered sizes of the <video> element (offsetWidth, offsetHeight)
DisplaySizes == {<<640, 360>>, <<6, 2>>}
\* boxes the detector may return
Boxes == { [xMin |-> 100, yMin |-> 50, width |-> 200, height |-> 200],
           [xMin |-> 1, yMin |-> 0, width |-> 3, height |-> 2] }
\* results of estimateFaces: no face, one face, two faces
Faces == {[box |-> b] : b \in Boxes}
FaceLists == {<<>>} \cup {<<f>> : f \in Faces} \cup {<<f, g>> : f, g \in Faces}
\* readyState values of a <video> whose metadata has loaded
ReadyStates == 1 .. HAVE_ENOUGH_DATA

\* ------------------------------------------------------------ arithmetic
Abs(n) == IF n < 0 THEN -n ELSE n
Sign(n) == IF n > 0 THEN 1 ELSE IF n < 0 THEN -1 ELSE 0

RECURSIVE Gcd(_, _)
Gcd(a, b) == IF b = 0 THEN a ELSE Gcd(b, a % b)

\* a number as a reduced fraction; <<1,0>> and <<-1,0>> are the infinities
\* and <<0,0>> is NaN, as a division by zero produces them
Norm(n, d) ==
    IF d = 0 THEN <<Sign(n), 0>>
    ELSE LET g == Gcd(Abs(n), Abs(d))
             s == IF d < 0 THEN -1 ELSE 1
         IN  <<(s * n) \div g, (s * d) \div g>>

Num(n) == <<n, 1>>
RMul(a, b) == Norm(a[1] * b[1], a[2] * b[2])
RDiv(a, b) == Norm(a[1] * b[2], a[2] * b[1])
RAdd(a, b) ==
    IF a[2] = 0 /\ b[2] = 0
    THEN (IF a = b THEN a ELSE <<0, 0>>)
    ELSE Norm(a[1] * b[2] + b[1] * a[2], a[2] * b[2])

VARIABLES
    status,            \* useState<Status>
    errorMessage,      \* useState<string>
    hatPosition,       \* useState<HatPosition>
    animationFrameId,  \* useRef<number>; 0 is undefined
    detectorRef,       \* detectorRef.current is set
    videoRef,          \* videoRef.current is the <video> element
    canvasRef,         \* canvasRef.current is the <canvas> element
    pc,                \* where initialize is suspended
    srcObject,         \* video.srcObject is the camera stream
    readyState,        \* video.readyState
    videoSize,         \* <<video.videoWidth, video.videoHeight>>
    offsetSize,        \* <<video.offsetWidth, video.offsetHeight>>
    canvasSize,        \* <<canvas.width, canvas.height>>
    tracksOpen,        \* the camera stream has a live track
    stopCount,         \* times the stream's tracks were stopped
    rafPending,        \* ids of the animation-frame callbacks not yet run
    rafNext,           \* id the next requestAnimationFrame returns
    inflight,          \* estimateFaces promises not yet settled
    faces,             \* result of the last settled estimateFaces call
    detectCalls,       \* estimateFaces calls made so far
    publishes,         \* setHatPosition calls made so far
    startCalls,        \* handleStart invocations so far
    startSaw,          \* status the last handleStart invocation read
    torn               \* the effect cleanup has run

vars == <<status, errorMessage, hatPosition, animationFrameId, detectorRef,
          videoRef, canvasRef, pc, srcObject, readyState, videoSize,
          offsetSize, canvasSize, tracksOpen, stopCount, rafPending, rafNext,
          inflight, faces, detectCalls, publishes, startCalls, startSaw,
          torn>>

reactVars == <<status, errorMessage, hatPosition>>
videoVars == <<srcObject, readyState, videoSize, offsetSize>>
loopVars == <<animationFrameId, rafPending, rafNext, inflight, faces,
              detectCalls, publishes>>

InitialHatPosition ==
    [top |-> Num(0), left |-> Num(0), width |-> Num(0), height |-> Num(0),
     transform |-> InitialTransform, display |-> "none"]

Init ==
    /\ status = "IDLE"
    /\ errorMessage = ""
    /\ hatPosition = InitialHatPosition
    /\ animationFrameId = 0
    /\ detectorRef = FALSE
    /\ videoRef = TRUE
    /\ canvasRef = TRUE
    /\ pc = "mount"
    /\ srcObject = FALSE
    /\ readyState = 0
    /\ videoSize = <<0, 0>>
    /\ offsetSize \in DisplaySizes
    /\ canvasSize = <<300, 150>>
    /\ tracksOpen = FALSE
    /\ stopCount = 0
    /\ rafPending = {}
    /\ rafNext = 1
    /\ inflight = 0
    /\ faces = <<>>
    /\ detectCalls = 0
    /\ publishes = 0
    /\ startCalls = 0
    /\ startSaw = ""
    /\ torn = FALSE

\* ------------------------------------------------------ coordinate mapping
\* line 79: the enlargement factor of the hat, 1.5
K_WIDTH == <<3, 2>>

PlacementNoCenter(face, off, vid) ==
    LET scaleX == RDiv(Num(off[1]), Num(vid[1]))
        scaleY == RDiv(Num(off[2]), Num(vid[2]))
        box == face.box
        scaledXMin == RMul(Num(box.xMin), scaleX)
        scaledYMin == RMul(Num(box.yMin), scaleY)
        scaledWidth == RMul(Num(box.width), scaleX)
        hatWidth == RMul(scaledWidth, K_WIDTH)
    IN  [left |-> scaledXMin, top |-> scaledYMin, width |-> hatWidth,
         height |-> hatWidth, transform |-> HatTransform, display |-> "block"]

PlacementInvertedScale(face, off, vid) ==
    LET scaleX == RDiv(Num(vid[1]), Num(off[1]))
        scaleY == RDiv(Num(vid[2]), Num(off[2]))
        box == face.box
        scaledXMin == RMul(Num(box.xMin), scaleX)
        scaledYMin == RMul(Num(box.yMin), scaleY)
        scaledWidth == RMul(Num(box.width), scaleX)
        hatWidth == RMul(scaledWidth, K_WIDTH)
        centerX == RAdd(scaledXMin, RDiv(scaledWidth, Num(2)))
    IN  [left |-> centerX, top |-> scaledYMin, width |-> hatWidth,
         height |-> hatWidth, transform |-> HatTransform, display |-> "block"]

\* lines 64-90: the placement published for the first face
Placement(face, off, vid) ==
    LET scaleX == RDiv(Num(off[1]), Num(vid[1]))
        scaleY == RDiv(Num(off[2]), Num(vid[2]))
        box == face.box
        scaledXMin == RMul(Num(box.xMin), scaleX)
        scaledYMin == RMul(Num(box.yMin), scaleY)
        scaledWidth == RMul(Num(box.width), scaleX)
        hatWidth == RMul(scaledWidth, K_WIDTH)
        hatHeight == hatWidth
        centerX == RAdd(scaledXMin, RDiv(scaledWidth, Num(2)))
    IN  [left |-> centerX, top |-> scaledYMin, width |-> hatWidth,
         height |-> hatHeight, transform |-> HatTransform, display |-> "block"]

HiddenPlacementReset(prev) == InitialHatPosition

\* line 92: prev => ({ ...prev, display: 'none' })
HiddenPlacement(prev) == [prev EXCEPT !.display = "none"]

PublishedLastFace(fs, prev, off, vid) ==
    IF Len(fs) > 0
    THEN Placement(fs[Len(fs)], off, vid)
    ELSE HiddenPlacement(prev)

\* lines 63-93: the value handed to setHatPosition for the result fs, with
\* face = faces[0]
Published(fs, prev, off, vid) ==
    IF Len(fs) > 0
    THEN Placement(fs[1], off, vid)
    ELSE HiddenPlacement(prev)

\* ------------------------------------------------------------ initialize
\* line 107-110: the effect runs after mount and calls initialize
Initialize ==
    /\ pc = "mount"
    /\ status' = "INITIALIZING_WEBCAM"
    /\ pc' = "getUserMedia"
    /\ UNCHANGED <<errorMessage, hatPosition, detectorRef, videoRef, canvasRef,
                   canvasSize, tracksOpen, stopCount, startCalls, startSaw, torn>>
    /\ UNCHANGED videoVars
    /\ UNCHANGED loopVars

\* lines 112-123, 132: getUserMedia resolves with a live stream
GumResolve ==
    /\ pc = "getUserMedia"
    /\ tracksOpen' = TRUE
    /\ IF videoRef
       THEN /\ srcObject' = TRUE
            /\ pc' = "metadata"
            /\ UNCHANGED status
       ELSE /\ status' = "LOADING_MODEL"
            /\ pc' = "setBackend"
            /\ UNCHANGED srcObject
    /\ UNCHANGED <<errorMessage, hatPosition, detectorRef, videoRef, canvasRef,
                   readyState, videoSize, offsetSize, canvasSize, stopCount,
                   startCalls, startSaw, torn>>
    /\ UNCHANGED loopVars

\* lines 124-129: getUserMedia rejects
GumReject ==
    /\ pc = "getUserMedia"
    /\ errorMessage' = WebcamMsg
    /\ status' = "ERROR"
    /\ pc' = "done"
    /\ UNCHANGED <<hatPosition, detectorRef, videoRef, canvasRef, canvasSize,
                   tracksOpen, stopCount, startCalls, startSaw, torn>>
    /\ UNCHANGED videoVars
    /\ UNCHANGED loopVars

\* lines 118-122, 132: the element fires loadedmetadata, the wait resolves
LoadedMetadata ==
    /\ pc = "metadata"
    /\ srcObject
    /\ readyState = 0
    /\ readyState' \in ReadyStates
    /\ videoSize' \in NativeSizes
    /\ status' = "LOADING_MODEL"
    /\ pc' = "setBackend"
    /\ UNCHANGED <<errorMessage, hatPosition, detectorRef, videoRef, canvasRef,
                   srcObject, offsetSize, canvasSize, tracksOpen, stopCount,
                   startCalls, startSaw, torn>>
    /\ UNCHANGED loopVars

\* line 134: tf.setBackend('webgl') resolves
SetBackendResolve ==
    /\ pc = "setBackend"
    /\ pc' = "tfReady"
    /\ UNCHANGED <<detectorRef, videoRef, canvasRef, canvasSize, tracksOpen,
                   stopCount, startCalls, startSaw, torn>>
    /\ UNCHANGED reactVars
    /\ UNCHANGED videoVars
    /\ UNCHANGED loopVars

\* line 135: tf.ready() resolves
TfReadyResolve ==
    /\ pc = "tfReady"
    /\ pc' = "createDetector"
    /\ UNCHANGED <<detectorRef, videoRef, canvasRef, canvasSize, tracksOpen,
                   stopCount, startCalls, startSaw, torn>>
    /\ UNCHANGED reactVars
    /\ UNCHANGED videoVars
    /\ UNCHANGED loopVars

\* lines 138, 147: createDetector resolves
CreateDetectorResolve ==
    /\ pc = "createDetector"
    /\ detectorRef' = TRUE
    /\ status' = "READY"
    /\ pc' = "done"
    /\ UNCHANGED <<errorMessage, hatPosition, videoRef, canvasRef, canvasSize,
                   tracksOpen, stopCount, startCalls, startSaw, torn>>
    /\ UNCHANGED videoVars
    /\ UNCHANGED loopVars

LoadRejectNoReturn ==
    /\ pc \in {"setBackend", "tfReady", "createDetector"}
    /\ errorMessage' = ModelMsg
    /\ status' = "READY"
    /\ pc' = "done"
    /\ UNCHANGED <<hatPosition, detectorRef, videoRef, canvasRef, canvasSize,
                   tracksOpen, stopCount, startCalls, startSaw, torn>>
    /\ UNCHANGED videoVars
    /\ UNCHANGED loopVars

LoadRejectWebcamMessage ==
    /\ pc \in {"setBackend", "tfReady", "createDetector"}
    /\ errorMessage' = WebcamMsg
    /\ status' = "ERROR"
    /\ pc' = "done"
    /\ UNCHANGED <<hatPosition, detectorRef, videoRef, canvasRef, canvasSize,
                   tracksOpen, stopCount, startCalls, startSaw, torn>>
    /\ UNCHANGED videoVars
    /\ UNCHANGED loopVars

\* lines 139-144: one of the three awaited loading steps rejects
LoadReject ==
    /\ pc \in {"setBackend", "tfReady", "createDetector"}
    /\ errorMessage' = ModelMsg
    /\ status' = "ERROR"
    /\ pc' = "done"
    /\ UNCHANGED <<hatPosition, detectorRef, videoRef, canvasRef, canvasSize,
                   tracksOpen, stopCount, startCalls, startSaw, torn>>
    /\ UNCHANGED videoVars
    /\ UNCHANGED loopVars

\* ------------------------------------------------------ the video element
\* the element's readyState moves as frames arrive or run out
ReadyStateChange ==
    /\ readyState # 0
    /\ readyState' \in ReadyStates \ {readyState}
    /\ UNCHANGED <<detectorRef, videoRef, canvasRef, pc, srcObject, videoSize,
                   offsetSize, canvasSize, tracksOpen, stopCount, startCalls,
                   startSaw, torn>>
    /\ UNCHANGED reactVars
    /\ UNCHANGED loopVars

\* the page is resized while the element is in the document
Resize ==
    /\ ~torn
    /\ offsetSize' \in DisplaySizes \ {offsetSize}
    /\ UNCHANGED <<detectorRef, videoRef, canvasRef, pc, srcObject, readyState,
                   videoSize, canvasSize, tracksOpen, stopCount, startCalls,
                   startSaw, torn>>
    /\ UNCHANGED reactVars
    /\ UNCHANGED loopVars

\* ------------------------------------------------------------- detectFace
\* line 47
CanDetect == detectorRef /\ videoRef /\ canvasRef /\ readyState = HAVE_ENOUGH_DATA

DetectFaceNoAwait(pend) ==
    /\ rafNext <= MaxRaf
    /\ rafPending' = pend \cup {rafNext}
    /\ animationFrameId' = rafNext
    /\ rafNext' = rafNext + 1
    /\ IF CanDetect
       THEN inflight' = inflight + 1 /\ detectCalls' = detectCalls + 1
       ELSE UNCHANGED <<inflight, detectCalls>>

DetectFaceStopsWhenUnreadable(pend) ==
    IF CanDetect
    THEN /\ inflight' = inflight + 1
         /\ detectCalls' = detectCalls + 1
         /\ rafPending' = pend
         /\ UNCHANGED <<animationFrameId, rafNext>>
    ELSE /\ rafPending' = pend
         /\ UNCHANGED <<animationFrameId, rafNext, inflight, detectCalls>>

\* lines 46-58, 103-104: detectFace up to its await; pend is the set of
\* callbacks still pending when it is entered.  getContext('2d') returns the
\* canvas's 2d context: the canvas never gets a context of another type.
DetectFace(pend) ==
    IF CanDetect
    THEN /\ inflight' = inflight + 1
         /\ detectCalls' = detectCalls + 1
         /\ rafPending' = pend
         /\ UNCHANGED <<animationFrameId, rafNext>>
    ELSE /\ rafNext <= MaxRaf
         /\ rafPending' = pend \cup {rafNext}
         /\ animationFrameId' = rafNext
         /\ rafNext' = rafNext + 1
         /\ UNCHANGED <<inflight, detectCalls>>

\* the host runs the animation-frame callback with the given id
Tick(id) ==
    /\ id \in rafPending
    /\ DetectFace(rafPending \ {id})
    /\ UNCHANGED <<detectorRef, videoRef, canvasRef, pc, canvasSize, tracksOpen,
                   stopCount, faces, publishes, startCalls, startSaw, torn>>
    /\ UNCHANGED reactVars
    /\ UNCHANGED videoVars

DetectResolveNoReschedule(fs) ==
    /\ inflight > 0
    /\ inflight' = inflight - 1
    /\ faces' = fs
    /\ hatPosition' = Published(fs, hatPosition, offsetSize, videoSize)
    /\ publishes' = publishes + 1
    /\ UNCHANGED <<status, errorMessage, animationFrameId, detectorRef,
                   videoRef, canvasRef, pc, canvasSize, tracksOpen, stopCount,
                   rafPending, rafNext, detectCalls, startCalls, startSaw,
                   torn>>
    /\ UNCHANGED videoVars

\* lines 58-93, 104: estimateFaces resolves with fs
DetectResolve(fs) ==
    /\ inflight > 0
    /\ rafNext <= MaxRaf
    /\ inflight' = inflight - 1
    /\ faces' = fs
    /\ hatPosition' = Published(fs, hatPosition, offsetSize, videoSize)
    /\ publishes' = publishes + 1
    /\ rafPending' = rafPending \cup {rafNext}
    /\ animationFrameId' = rafNext
    /\ rafNext' = rafNext + 1
    /\ UNCHANGED <<status, errorMessage, detectorRef, videoRef, canvasRef, pc,
                   canvasSize, tracksOpen, stopCount, detectCalls, startCalls,
                   startSaw, torn>>
    /\ UNCHANGED videoVars

DetectRejectFallThrough ==
    /\ inflight > 0
    /\ rafNext <= MaxRaf
    /\ inflight' = inflight - 1
    /\ errorMessage' = DetectMsg
    /\ status' = "ERROR"
    /\ rafPending' = (rafPending \ {animationFrameId}) \cup {rafNext}
    /\ animationFrameId' = rafNext
    /\ rafNext' = rafNext + 1
    /\ UNCHANGED <<hatPosition, detectorRef, videoRef, canvasRef, pc,
                   canvasSize, tracksOpen, stopCount, faces, detectCalls,
                   publishes, startCalls, startSaw, torn>>
    /\ UNCHANGED videoVars

\* lines 94-102: estimateFaces rejects
DetectReject ==
    /\ inflight > 0
    /\ inflight' = inflight - 1
    /\ errorMessage' = DetectMsg
    /\ status' = "ERROR"
    /\ rafPending' = IF animationFrameId # 0
                     THEN rafPending \ {animationFrameId}
                     ELSE rafPending
    /\ UNCHANGED <<hatPosition, animationFrameId, detectorRef, videoRef,
                   canvasRef, pc, canvasSize, tracksOpen, stopCount, rafNext,
                   faces, detectCalls, publishes, startCalls, startSaw, torn>>
    /\ UNCHANGED videoVars

\* ------------------------------------------------------------ handleStart
StartGuardNoStatus == videoRef /\ canvasRef

StartGuardNotDetecting == status # "DETECTING" /\ videoRef /\ canvasRef

\* line 164
StartGuard == status = "READY" /\ videoRef /\ canvasRef

\* lines 163-174: the start button's handler, while the component is mounted
HandleStart ==
    /\ ~torn
    /\ startCalls < MaxStarts
    /\ startCalls' = startCalls + 1
    /\ startSaw' = status
    /\ IF StartGuard
       THEN /\ canvasSize' = offsetSize
            /\ status' = "DETECTING"
            /\ DetectFace(rafPending)
       ELSE UNCHANGED <<canvasSize, status, animationFrameId, rafPending,
                        rafNext, inflight, detectCalls>>
    /\ UNCHANGED <<errorMessage, hatPosition, detectorRef, videoRef, canvasRef,
                   pc, tracksOpen, stopCount, faces, publishes, torn>>
    /\ UNCHANGED videoVars

\* --------------------------------------------------------------- teardown
\* lines 152-159: the component unmounts and the effect cleanup runs.
\* detachedFirst: React cleared the refs before running the cleanup.
Teardown(detachedFirst) ==
    /\ pc # "mount"
    /\ ~torn
    /\ torn' = TRUE
    /\ rafPending' = IF animationFrameId # 0
                     THEN rafPending \ {animationFrameId}
                     ELSE rafPending
    /\ IF ~detachedFirst /\ videoRef /\ srcObject
       THEN tracksOpen' = FALSE /\ stopCount' = stopCount + 1
       ELSE UNCHANGED <<tracksOpen, stopCount>>
    /\ videoRef' = FALSE
    /\ canvasRef' = FALSE
    /\ offsetSize' = <<0, 0>>
    /\ UNCHANGED <<animationFrameId, detectorRef, pc, srcObject, readyState,
                   videoSize, canvasSize, rafNext, inflight, faces,
                   detectCalls, publishes, startCalls, startSaw>>
    /\ UNCHANGED reactVars

Next ==
    \/ Initialize
    \/ GumResolve
    \/ GumReject
    \/ LoadedMetadata
    \/ SetBackendResolve
    \/ TfReadyResolve
    \/ CreateDetectorResolve
    \/ LoadReject
    \/ ReadyStateChange
    \/ Resize
    \/ \E id \in rafPending : Tick(id)
    \/ \E fs \in FaceLists : DetectResolve(fs)
    \/ DetectReject
    \/ HandleStart
    \/ \E detachedFirst \in BOOLEAN : Teardown(detachedFirst)

Spec == Init /\ [][Next]_vars

\* the next step of initialize: the effect runs, or the operation it awaits
\* settles
InitStep ==
    \/ Initialize
    \/ GumResolve
    \/ GumReject
    \/ LoadedMetadata
    \/ SetBackendResolve
    \/ TfReadyResolve
    \/ CreateDetectorResolve
    \/ LoadReject

\* the pending estimateFaces call settles
DetectSettles == (\E fs \in FaceLists : DetectResolve(fs)) \/ DetectReject

\* the host runs a pending animation-frame callback
TickRuns == \E id \in rafPending : Tick(id)

\* every awaited external operation settles and every requested animation
\* frame is delivered
LiveSpec ==
    /\ Init /\ [][Next]_vars
    /\ WF_vars(InitStep)
    /\ WF_vars(DetectSettles)
    /\ WF_vars(TickRuns)

TypeOK ==
    /\ status \in Statuses
    /\ errorMessage \in {"", WebcamMsg, ModelMsg, DetectMsg}
    /\ animationFrameId \in 0 .. MaxRaf
    /\ rafPending \subseteq 1 .. MaxRaf
    /\ inflight \in Nat

\* ------------------------------------------------------------- properties
StatusEdges ==
    { <<"IDLE", "INITIALIZING_WEBCAM">>,
      <<"INITIALIZING_WEBCAM", "LOADING_MODEL">>,
      <<"LOADING_MODEL", "READY">>,
      <<"READY", "DETECTING">>,
      <<"INITIALIZING_WEBCAM", "ERROR">>,
      <<"LOADING_MODEL", "ERROR">>,
      <<"DETECTING", "ERROR">> }

InitFailed == errorMessage \in {WebcamMsg, ModelMsg}

LoopIdle == rafPending = {} /\ inflight = 0

\* C1: every change of the status follows one of the seven edges
\* IDLE -> INITIALIZING_WEBCAM -> LOADING_MODEL -> READY -> DETECTING,
\* INITIALIZING_WEBCAM -> ERROR, LOADING_MODEL -> ERROR, DETECTING -> ERROR.
C1_StatusEdges ==
    [][status' # status => <<status, status'>> \in StatusEdges]_vars

\* a detection fault after a published tick, with the teardown run as well
C1_Witness ==
    status = "ERROR" /\ errorMessage = DetectMsg /\ torn /\ publishes > 0

\* C2: once the status is ERROR it stays ERROR, and an invocation of
\* handleStart in ERROR changes nothing but the record of the invocation.
C2_ErrorTerminal ==
    [][status = "ERROR" =>
         /\ status' = "ERROR"
         /\ startCalls' # startCalls =>
              UNCHANGED <<errorMessage, hatPosition, animationFrameId,
                          detectorRef, videoRef, canvasRef, pc, srcObject,
                          readyState, videoSize, offsetSize, canvasSize,
                          tracksOpen, stopCount, rafPending, rafNext, inflight,
                          faces, detectCalls, publishes, torn>>]_vars

\* handleStart was invoked in ERROR
C2_Witness == status = "ERROR" /\ startSaw = "ERROR"

\* C3: after a failed camera acquisition or detector load the status is
\* ERROR, no estimateFaces call has been made, and no tick has been
\* scheduled or is in flight.
C3_InitFailureNeverDetects ==
    InitFailed =>
        status = "ERROR" /\ detectCalls = 0 /\ rafNext = 1 /\ LoopIdle

\* getUserMedia failed and handleStart was invoked afterwards
C3_Witness == errorMessage = WebcamMsg /\ startSaw = "ERROR"

\* C4: a step in which estimateFaces rejects ends in ERROR with no tick
\* pending and no call in flight, and from then on no estimateFaces call
\* and no setHatPosition call is made.
C4_DetectFaultStopsLoop ==
    [][/\ errorMessage' = DetectMsg => status' = "ERROR" /\ LoopIdle'
       /\ errorMessage = DetectMsg =>
            /\ detectCalls' = detectCalls
            /\ publishes' = publishes
            /\ hatPosition' = hatPosition
            /\ rafNext' = rafNext]_vars

\* the third estimateFaces call rejected after two published ticks
C4_Witness ==
    errorMessage = DetectMsg /\ detectCalls = 3 /\ publishes = 2

\* C5: at most one estimateFaces call is in flight.
C5_OneDetectInFlight == inflight <= 1

\* a call in flight on a tick after the first
C5_Witness == inflight = 1 /\ detectCalls >= 2

\* C6: after the cleanup has run, setHatPosition is not called and the
\* placement does not change.
C6_NoPublishAfterStop ==
    [][torn => publishes' = publishes /\ hatPosition' = hatPosition]_vars

\* C7: after the cleanup has run no camera track is live, and the tracks
\* are stopped at most once.
C7_NoTrackLeftOpen == stopCount <= 1 /\ (torn => ~tracksOpen)

\* C8: after the cleanup has run no tick is pending, none gets scheduled
\* and no estimateFaces call is started.
C8_LoopCancelledForGood ==
    [][/\ torn' => rafPending' = {}
       /\ torn => rafNext' = rafNext /\ detectCalls' = detectCalls]_vars

\* C9: the pending ticks and the calls in flight never number more than
\* one, and an invocation of handleStart outside READY schedules no tick
\* and starts no call.
C9_SingleTickChain ==
    [][/\ Cardinality(rafPending') + inflight' <= 1
       /\ (startCalls' # startCalls /\ status # "READY") =>
             UNCHANGED <<status, rafPending, rafNext, animationFrameId,
                         inflight, detectCalls>>]_vars

\* handleStart was invoked while a call of the running loop was in flight
C9_Witness == startSaw = "DETECTING" /\ inflight = 1

\* C10: a tick whose estimateFaces call resolves with the empty list
\* publishes the previous placement with display 'none', keeps the status
\* DETECTING and sets no error message.
C10_EmptyResultHides ==
    [][(publishes' = publishes + 1 /\ faces' = <<>>) =>
         /\ hatPosition'.display = "none"
         /\ hatPosition'.left = hatPosition.left
         /\ hatPosition'.top = hatPosition.top
         /\ hatPosition'.width = hatPosition.width
         /\ hatPosition'.height = hatPosition.height
         /\ status = "DETECTING" /\ status' = "DETECTING"
         /\ errorMessage' = errorMessage /\ errorMessage = ""]_vars

\* the third tick hid an overlay that an earlier tick had placed
C10_Witness ==
    /\ publishes = 3 /\ faces = <<>>
    /\ hatPosition.display = "none" /\ hatPosition.width # Num(0)
    /\ status = "DETECTING"

\* a step in which estimateFaces resolved and its result was published
PublishStep == publishes' = publishes + 1

\* C11: when the result has two or more faces the published placement is
\* the one any result with the same first face would have produced.
C11_OnlyFirstFaceUsed ==
    [][(PublishStep /\ Len(faces') >= 2) =>
         \A fs \in FaceLists :
            (Len(fs) >= 1 /\ fs[1] = faces'[1]) =>
               hatPosition' = Published(fs, hatPosition, offsetSize, videoSize)]_vars

\* a result of two different faces was published
C11_Witness ==
    /\ publishes > 0 /\ Len(faces) = 2 /\ faces[1] # faces[2]
    /\ hatPosition.display = "block"

\* C12: for a result with a face and a native size above zero the published
\* placement has left = (xMin + width/2)*scaleX, top = yMin*scaleY,
\* width = width*scaleX*K_WIDTH, height = width and display 'block'.
C12_PlacementFormula ==
    [][(PublishStep /\ Len(faces') > 0 /\ videoSize[1] > 0 /\ videoSize[2] > 0) =>
         LET b == faces'[1].box
             scaleX == RDiv(Num(offsetSize[1]), Num(videoSize[1]))
             scaleY == RDiv(Num(offsetSize[2]), Num(videoSize[2]))
         IN  /\ hatPosition'.left =
                   RMul(RAdd(Num(b.xMin), RDiv(Num(b.width), Num(2))), scaleX)
             /\ hatPosition'.top = RMul(Num(b.yMin), scaleY)
             /\ hatPosition'.width = RMul(RMul(Num(b.width), scaleX), K_WIDTH)
             /\ hatPosition'.height = hatPosition'.width
             /\ hatPosition'.display = "block"]_vars

\* the box (1, 0, 3, 2) on a 4x2 frame shown at 6x2: left = 2.5 * 1.5
C12_Witness ==
    /\ publishes > 0 /\ Len(faces) > 0
    /\ hatPosition.display = "block" /\ hatPosition.left = <<15, 4>>
    /\ hatPosition.width = <<27, 4>>

ScenarioBox == [xMin |-> 100, yMin |-> 50, width |-> 200, height |-> 200]

\* a publish step of scenario 1: 1280x720 frame, 640x360 display, ScenarioBox
ScenarioStep ==
    /\ PublishStep /\ Len(faces') > 0 /\ faces'[1].box = ScenarioBox
    /\ videoSize = <<1280, 720>> /\ offsetSize = <<640, 360>>

\* C13 as stated: scenario 1 publishes left = 150, top = 25 and
\* width = 150*K_WIDTH.
C13_ScenarioAsStated ==
    [][ScenarioStep =>
         /\ hatPosition'.left = Num(150)
         /\ hatPosition'.top = Num(25)
         /\ hatPosition'.width = RMul(Num(150), K_WIDTH)]_vars

\* C13 amended: scenario 1 publishes left = 100, top = 25 and
\* width = 100*K_WIDTH = 150.
C13_Scenario ==
    [][ScenarioStep =>
         /\ hatPosition'.left = Num(100)
         /\ hatPosition'.top = Num(25)
         /\ hatPosition'.width = RMul(Num(100), K_WIDTH)
         /\ hatPosition'.width = Num(150)]_vars

\* scenario 1 was published
C13_Witness ==
    /\ publishes > 0 /\ Len(faces) > 0 /\ faces[1].box = ScenarioBox
    /\ videoSize = <<1280, 720>> /\ offsetSize = <<640, 360>>
    /\ hatPosition.left = Num(100) /\ hatPosition.top = Num(25)

\* a step in which detectFace is entered: an animation-frame callback runs,
\* or handleStart calls it
DetectFaceRuns ==
    \/ rafPending \ rafPending' # {} /\ torn' = torn /\ status' = status
    \/ startCalls' # startCalls /\ status = "READY" /\ status' = "DETECTING"

\* C14 as stated: a tick that finds the frame source unreadable schedules
\* no further tick.
C14_UnreadableStopsLoop ==
    [][(DetectFaceRuns /\ ~CanDetect) =>
         rafPending' = {} /\ rafNext' = rafNext]_vars

\* C14 amended: a tick that finds the frame source unreadable makes no
\* estimateFaces call, publishes nothing, raises no error and schedules
\* exactly the next tick.
C14_UnreadableSkipsAndReschedules ==
    [][(DetectFaceRuns /\ ~CanDetect) =>
         /\ rafPending' = {rafNext} /\ rafNext' = rafNext + 1
         /\ animationFrameId' = rafNext
         /\ inflight' = inflight /\ detectCalls' = detectCalls
         /\ publishes' = publishes /\ hatPosition' = hatPosition
         /\ status' # "ERROR" /\ errorMessage' = errorMessage]_vars

\* two ticks in a row found the frame source unreadable
C14_Witness ==
    /\ status = "DETECTING" /\ detectCalls = 0
    /\ rafNext = 3 /\ rafPending = {2}

Finite(x) == x[2] # 0

\* C16: the mapping runs only with a native width and height above zero,
\* so no scale factor is a division by zero and every published number is
\* finite; a call in flight always has a frame source with known size.
C16_MappingOnlyWhenReady ==
    /\ [](inflight > 0 => videoSize[1] > 0 /\ videoSize[2] > 0)
    /\ [][(PublishStep /\ Len(faces') > 0) =>
            /\ videoSize[1] > 0 /\ videoSize[2] > 0
            /\ Finite(hatPosition'.left) /\ Finite(hatPosition'.top)
            /\ Finite(hatPosition'.width) /\ Finite(hatPosition'.height)]_vars

\* a face was mapped after the cleanup had stopped the stream's tracks
C16_Witness ==
    /\ torn /\ stopCount = 1 /\ ~tracksOpen
    /\ publishes > 0 /\ Len(faces) > 0 /\ hatPosition.display = "block"

\* C17: whenever the overlay is visible the status is DETECTING.
C17_VisibleOnlyWhileDetecting ==
    hatPosition.display = "block" => status = "DETECTING"

\* C18: the status leaves IDLE, INITIALIZING_WEBCAM and LOADING_MODEL for
\* READY or ERROR, and it is READY only with the detector handle set.
C18_InitializationCompletes ==
    /\ [](status = "READY" => detectorRef)
    /\ <>(status \in {"READY", "ERROR"})
    /\ (status \in {"INITIALIZING_WEBCAM", "LOADING_MODEL"})
          ~> (status \in {"READY", "ERROR"})

\* initialize ran to its end and the session is READY with its detector
C18_Witness == status = "READY" /\ detectorRef /\ pc = "done"

\* the camera stream was acquired at some point
StreamAcquired == tracksOpen \/ stopCount > 0

\* the message of the stage that failed, read off the state: detection can
\* fail only with a detector, model loading only with a stream
StageMessage ==
    IF detectorRef THEN DetectMsg
    ELSE IF StreamAcquired THEN ModelMsg
    ELSE WebcamMsg

\* C19: in ERROR the error message is the one of the stage that failed,
\* and outside ERROR it is empty.
C19_ErrorMessageMatchesStage ==
    /\ status = "ERROR" => errorMessage = StageMessage /\ errorMessage # ""
    /\ status # "ERROR" => errorMessage = ""

\* the model load failed after the camera was acquired
C19_Witness ==
    status = "ERROR" /\ errorMessage = ModelMsg /\ StreamAcquired

====
